---- MODULE Spec2Model ----
(***************************************************************************)
(* Model of the monster melee blow effects of mon-blows.c: the effect      *)
(* handlers, the shared effect families they are built from, and the       *)
(* registry lookup melee_handler_for_blow_effect.                          *)
(*                                                                         *)
(* One behaviour is one blow: Init is the context the caller has built     *)
(* (melee_effect_handler_context_t) together with the player and monster   *)
(* it points to; a handler runs on it; the caller then reads the flags.    *)
(* A handler is an operator from the world on entry to the set of worlds   *)
(* it can leave, one per outcome of its random draws and collaborators.    *)
(***************************************************************************)
EXTENDS Integers, Sequences, FiniteSets, TLC

VARIABLES pc, ctx, p, mon, effects, tries, z_info, entry, lk

vars == <<pc, ctx, p, mon, effects, tries, z_info, entry, lk>>

(* ----------------------------------------------------------------------- *)
(* Bounds of the model                                                     *)
(* ----------------------------------------------------------------------- *)
\* number of pack slots (z_info->pack_size, read from the game's constants)
PackSize == 3
\* largest monster level proxy (context->rlev) tried
MaxRlev == 3
\* largest stack size of a pack item tried
MaxStack == 2

(* ----------------------------------------------------------------------- *)
(* Program constants                                                       *)
(* ----------------------------------------------------------------------- *)
MaxTries == 10
ShatterThreshold == 23
InvenDamageCap == 300
ArmorCap == 240
TimedMax == 10000
MAX_PVAL == 32767

\* MIN and MAX of the source (z-util.h macros)
MIN(a, b) == IF a < b THEN a ELSE b
MAX(a, b) == IF a < b THEN b ELSE a

Handlers ==
  { "NONE", "HURT", "POISON", "DISENCHANT", "DRAIN_CHARGES", "EAT_GOLD",
    "EAT_ITEM", "EAT_FOOD", "EAT_LIGHT", "ACID", "ELEC", "FIRE", "COLD",
    "BLIND", "CONFUSE", "TERRIFY", "PARALYZE", "LOSE_STR", "LOSE_INT",
    "LOSE_WIS", "LOSE_DEX", "LOSE_CON", "LOSE_ALL", "SHATTER", "EXP_10",
    "EXP_20", "EXP_40", "EXP_80", "HALLU" }

(* ----------------------------------------------------------------------- *)
(* The world a handler works on                                            *)
(* ----------------------------------------------------------------------- *)
World ==
  [ pc |-> pc, ctx |-> ctx, p |-> p, mon |-> mon,
    effects |-> effects, tries |-> tries, z_info |-> z_info ]

\* an empty pack slot (inven[i] == NULL)
NULL == [ kind |-> "NULL", artifact |-> FALSE, number |-> 0, pval |-> 0,
          level |-> 0, origin |-> "NONE" ]

Log(w, name, arg) == [ w EXCEPT !.effects = Append(@, <<name, arg>>) ]

Names(w) == { w.effects[i][1] : i \in DOMAIN w.effects }

(* ----------------------------------------------------------------------- *)
(* Random draws (z-rand.h)                                                 *)
(* ----------------------------------------------------------------------- *)
\* Rand_div(m) is 0 when m <= 1
randint0(n) == IF n <= 1 THEN {0} ELSE 0 .. (n - 1)
randint1(n) == IF n <= 1 THEN {1} ELSE 1 .. n
\* damroll(num, sides): the lowest, the middle and the highest total
damroll(num, sides) == { num, (num * (sides + 1)) \div 2, num * sides }

(* ----------------------------------------------------------------------- *)
(* Collaborators outside mon-blows.c                                       *)
(* ----------------------------------------------------------------------- *)
\* take_hit: subtract the damage; the player dies when hit points go below 0
take_hit(w, dam) ==
  IF w.p.is_dead THEN w
  ELSE LET chp == w.p.chp - dam
       IN  Log([ w EXCEPT !.p.chp = chp, !.p.is_dead = (chp < 0) ],
               "take_hit", dam)

\* armour reduces damage by ac/400 of it, ac counting up to 240
adjust_dam_armor(damage, ac) == damage - ((damage * MIN(ac, ArmorCap)) \div 400)

\* adjust_dam: the resistance outcomes of an element: immune, resisted,
\* halved, unresisted, vulnerable
adjust_dam(dam) ==
  { 0, (dam + 2) \div 3, (dam + 1) \div 2, dam, (dam * 4) \div 3 }

\* inven_damage: recorded by the damage percentage it is called with
inven_damage(w, perc) == Log(w, "inven_damage", perc)

\* update_smart_learn: the attacker records what it saw of the player
update_smart_learn(w) == Log(w, "update_smart_learn", 0)

\* player_inc_timed: either the player is protected (nothing changes, false)
\* or the timer grows up to its maximum; true when the timer changed
player_inc_timed(w, type, amount) ==
  LET old == w.p.timed[type]
      new == MIN(old + amount, TimedMax)
  IN  { [ w |-> Log(w, "player_inc_timed", 0), changed |-> FALSE ],
        [ w |-> Log([ w EXCEPT !.p.timed[type] = new ],
                    "player_inc_timed", new - old),
          changed |-> (new # old) ] }

\* effect_simple(..., &context->obvious): the effect runs and may set the flag
effect_simple(w, name) ==
  { Log([ w EXCEPT !.ctx.obvious = @ \/ ident ], name, 0) : ident \in BOOLEAN }

\* player_exp_lose: the player loses the amount, at most what is there
player_exp_lose(w, amount) ==
  Log([ w EXCEPT !.p.exp = @ - MIN(amount, @) ], "player_exp_lose", amount)

\* gear_object_for_use(obj, 1, ...): take one unit out of pack slot idx; a
\* stack is split (a charged stack shares out its charges), a single item
\* leaves the slot empty.  The result is <<world, unit taken>>.
gear_object_for_use(w, idx) ==
  LET obj    == w.p.inven[idx]
      share  == IF obj.kind = "wand" THEN obj.pval \div obj.number
                ELSE obj.pval
      unit   == [ obj EXCEPT !.number = 1, !.pval = share ]
      rest   == IF obj.number > 1
                THEN [ obj EXCEPT !.number = @ - 1,
                                  !.pval = IF obj.kind = "wand"
                                           THEN @ - share ELSE @ ]
                ELSE NULL
  IN  << [ w EXCEPT !.p.inven[idx] = rest ], unit >>

\* monster_carry: the monster holds one more object
monster_carry(w, obj) == [ w EXCEPT !.mon.held = Append(@, obj) ]

\* object_delete: the unit is gone
object_delete(w, obj) == Log(w, "object_delete", obj.number)

\* object_prep(obj, money_kind("gold", ...)): a fresh gold object
object_new == [ kind |-> "gold", artifact |-> FALSE, number |-> 1,
                pval |-> 0, level |-> 0, origin |-> "NONE" ]

\* EF_EARTHQUAKE: the quake may push the player to another grid
EF_EARTHQUAKE(w) ==
  { Log([ w EXCEPT !.p.pos = @ + d ], "EF_EARTHQUAKE", 8) : d \in {0, 1} }

tval_can_have_charges(obj) == obj.kind = "wand"
tval_is_edible(obj) == obj.kind = "food"

(* ----------------------------------------------------------------------- *)
(* Shared effect families                                                  *)
(* ----------------------------------------------------------------------- *)
Bind(S, F(_)) == UNION { F(x) : x \in S }

Done(w) == [ w EXCEPT !.pc = "done" ]

\* melee_effect_elemental keeping the physical damage of a method that
\* deals none
melee_effect_elemental_phys(w, type, pure_element) ==
  LET w1 == IF pure_element THEN [ w EXCEPT !.ctx.obvious = TRUE ] ELSE w
      physical_dam == adjust_dam_armor(w.ctx.damage, w.ctx.ac + 50)
      After(elemental_dam) ==
        LET dam == IF physical_dam > elemental_dam
                   THEN physical_dam ELSE elemental_dam
            w2 == Log([ w1 EXCEPT !.ctx.damage = dam ],
                      "adjust_dam", elemental_dam)
            w3 == IF elemental_dam > 0
                  THEN inven_damage(w2, MIN(elemental_dam * 5, InvenDamageCap))
                  ELSE w2
            w4 == IF dam > 0 THEN take_hit(w3, dam) ELSE w3
        IN  IF pure_element THEN update_smart_learn(w4) ELSE w4
  IN  { After(e) : e \in adjust_dam(w.ctx.damage) }

melee_effect_elemental(w, type, pure_element) ==
  LET w1 == IF pure_element THEN [ w EXCEPT !.ctx.obvious = TRUE ] ELSE w
      armored == adjust_dam_armor(w.ctx.damage, w.ctx.ac + 50)
      physical_dam == IF ~w.ctx.phys THEN 0 ELSE armored
      After(elemental_dam) ==
        LET dam == IF physical_dam > elemental_dam
                   THEN physical_dam ELSE elemental_dam
            w2 == Log([ w1 EXCEPT !.ctx.damage = dam ],
                      "adjust_dam", elemental_dam)
            w3 == IF elemental_dam > 0
                  THEN inven_damage(w2, MIN(elemental_dam * 5, InvenDamageCap))
                  ELSE w2
            w4 == IF dam > 0 THEN take_hit(w3, dam) ELSE w3
        IN  IF pure_element THEN update_smart_learn(w4) ELSE w4
  IN  { After(e) : e \in adjust_dam(w.ctx.damage) }

\* melee_effect_timed raising the timer whatever the saving throw gave
melee_effect_timed_nosave(w, type, amount, attempt_save) ==
  LET w1 == take_hit(w, w.ctx.damage)
      Inc(v) ==
        { update_smart_learn(
            IF r.changed THEN [ r.w EXCEPT !.ctx.obvious = TRUE ] ELSE r.w) :
          r \in player_inc_timed(v, type, amount) }
  IN  IF w1.p.is_dead THEN { w1 }
      ELSE IF attempt_save
           THEN UNION { Inc(Log(w1, "randint0(100)", roll)) :
                        roll \in randint0(100) }
           ELSE Inc(w1)

\* melee_effect_timed storing the result of player_inc_timed in the flag
melee_effect_timed_assign(w, type, amount, attempt_save) ==
  LET w1 == take_hit(w, w.ctx.damage)
      Inc(v) ==
        { update_smart_learn([ r.w EXCEPT !.ctx.obvious = r.changed ]) :
          r \in player_inc_timed(v, type, amount) }
      Saved(v) == { update_smart_learn([ v EXCEPT !.ctx.obvious = TRUE ]) }
  IN  IF w1.p.is_dead THEN { w1 }
      ELSE IF attempt_save
           THEN UNION { IF roll < w1.p.skill_save
                        THEN Saved(Log(w1, "randint0(100)", roll))
                        ELSE Inc(Log(w1, "randint0(100)", roll)) :
                        roll \in randint0(100) }
           ELSE Inc(w1)

melee_effect_timed(w, type, amount, attempt_save) ==
  LET w1 == take_hit(w, w.ctx.damage)
      Inc(v) ==
        { update_smart_learn(
            IF r.changed THEN [ r.w EXCEPT !.ctx.obvious = TRUE ] ELSE r.w) :
          r \in player_inc_timed(v, type, amount) }
      Saved(v) == { update_smart_learn([ v EXCEPT !.ctx.obvious = TRUE ]) }
  IN  IF w1.p.is_dead THEN { w1 }
      ELSE IF attempt_save
           THEN UNION { IF roll < w1.p.skill_save
                        THEN Saved(Log(w1, "randint0(100)", roll))
                        ELSE Inc(Log(w1, "randint0(100)", roll)) :
                        roll \in randint0(100) }
           ELSE Inc(w1)

melee_effect_stat(w, stat) ==
  LET w1 == take_hit(w, w.ctx.damage)
  IN  IF w1.p.is_dead THEN { w1 } ELSE effect_simple(w1, stat)

\* melee_effect_experience draining in full from a defender who holds life
melee_effect_experience_full(w, chance, drain_amount) ==
  LET w1 == Log([ w EXCEPT !.ctx.obvious = TRUE ], "drain_amount", drain_amount)
      w2 == update_smart_learn(take_hit(w1, w1.ctx.damage))
      d  == drain_amount + ((w2.p.exp \div 100) * w2.z_info.life_drain_percent)
  IN  IF w2.p.is_dead THEN { w2 }
      ELSE IF w2.p.hold_life
           THEN { LET v == Log(w2, "randint0(100)", roll)
                  IN  IF roll < chance THEN v
                      ELSE player_exp_lose(v, d) :
                  roll \in randint0(100) }
           ELSE { player_exp_lose(w2, d) }

melee_effect_experience(w, chance, drain_amount) ==
  LET w1 == Log([ w EXCEPT !.ctx.obvious = TRUE ], "drain_amount", drain_amount)
      w2 == update_smart_learn(take_hit(w1, w1.ctx.damage))
      d  == drain_amount + ((w2.p.exp \div 100) * w2.z_info.life_drain_percent)
  IN  IF w2.p.is_dead THEN { w2 }
      ELSE IF w2.p.hold_life
           THEN { LET v == Log(w2, "randint0(100)", roll)
                  IN  IF roll < chance THEN v
                      ELSE player_exp_lose(v, d \div 10) :
                  roll \in randint0(100) }
           ELSE { player_exp_lose(w2, d) }

(* ----------------------------------------------------------------------- *)
(* Effect handlers                                                         *)
(* ----------------------------------------------------------------------- *)
melee_effect_handler_NONE(w) ==
  { [ w EXCEPT !.ctx.obvious = TRUE, !.ctx.damage = 0 ] }

melee_effect_handler_HURT(w) ==
  LET dam == adjust_dam_armor(w.ctx.damage, w.ctx.ac)
  IN  { take_hit([ w EXCEPT !.ctx.obvious = TRUE, !.ctx.damage = dam ], dam) }

melee_effect_handler_POISON(w) ==
  LET Rest(w1) ==
        IF w1.p.is_dead THEN { w1 }
        ELSE UNION
          { { update_smart_learn(
                IF r.changed THEN [ r.w EXCEPT !.ctx.obvious = TRUE ]
                ELSE r.w) :
              r \in player_inc_timed(w1, "POISONED", 5 + n) } :
            n \in randint1(w1.ctx.rlev) }
  IN  Bind(melee_effect_elemental(w, "POIS", FALSE), Rest)

melee_effect_handler_DISENCHANT(w) ==
  LET w1 == take_hit(w, w.ctx.damage)
  IN  IF w1.p.is_dead THEN { w1 }
      ELSE IF ~w1.p.resist_disen
           THEN { update_smart_learn(v) : v \in effect_simple(w1, "EF_DISENCHANT") }
           ELSE { update_smart_learn(w1) }

\* DRAIN_CHARGES up to the "Find an item" loop
melee_effect_handler_DRAIN_CHARGES(w) ==
  LET w1 == take_hit(w, w.ctx.damage)
  IN  IF w1.p.is_dead THEN { w1 }
      ELSE { [ w1 EXCEPT !.pc = "scan", !.tries = 0 ] }

\* DRAIN_CHARGES_try healing without "Don't heal more than max hp"
DRAIN_CHARGES_try_overheal(w, index) ==
  LET obj == w.p.inven[index]
      charged == tval_can_have_charges(obj) /\ obj.pval # 0
      unpower == IF charged THEN (w.ctx.rlev \div (obj.level + 2)) + 1 ELSE 0
      newcharge == MAX(obj.pval - unpower, 0)
      heal == w.ctx.rlev * unpower
      w1 == Log(Log([ w EXCEPT !.p.inven[index].pval = newcharge ],
                    "drain", index), "unpower", unpower)
      w2 == [ w1 EXCEPT !.ctx.obvious = TRUE,
                        !.mon.hp = @ + heal,
                        !.p.redraw = (IF w.p.health_who
                                      THEN @ \cup {"PR_HEALTH"} ELSE @)
                                     \cup {"PR_INVEN"},
                        !.p.notice = @ \cup {"PN_COMBINE"} ]
  IN  IF obj = NULL THEN [ w EXCEPT !.tries = @ + 1 ]
      ELSE IF unpower # 0 THEN Done(Log(w2, "heal", heal))
      ELSE [ w EXCEPT !.tries = @ + 1 ]

\* one pass of the loop of DRAIN_CHARGES on the slot picked
DRAIN_CHARGES_try(w, index) ==
  LET obj == w.p.inven[index]
      charged == tval_can_have_charges(obj) /\ obj.pval # 0
      unpower == IF charged THEN (w.ctx.rlev \div (obj.level + 2)) + 1 ELSE 0
      newcharge == MAX(obj.pval - unpower, 0)
      heal == MIN(w.ctx.rlev * unpower, w.mon.maxhp - w.mon.hp)
      w1 == Log(Log([ w EXCEPT !.p.inven[index].pval = newcharge ],
                    "drain", index), "unpower", unpower)
      w2 == [ w1 EXCEPT !.ctx.obvious = TRUE,
                        !.mon.hp = @ + heal,
                        !.p.redraw = (IF w.p.health_who
                                      THEN @ \cup {"PR_HEALTH"} ELSE @)
                                     \cup {"PR_INVEN"},
                        !.p.notice = @ \cup {"PN_COMBINE"} ]
  IN  IF obj = NULL THEN [ w EXCEPT !.tries = @ + 1 ]
      ELSE IF unpower # 0 THEN Done(Log(w2, "heal", heal))
      ELSE [ w EXCEPT !.tries = @ + 1 ]

\* carry_gold making a single object and dropping what exceeds MAX_PVAL
carry_gold_once(w, gold) ==
  IF gold > 0
  THEN LET amt == IF gold > MAX_PVAL THEN MAX_PVAL ELSE gold
           obj == [ object_new EXCEPT !.pval = amt, !.origin = "STOLEN" ]
       IN  monster_carry(w, obj)
  ELSE w

\* while (gold > 0): the stolen gold becomes objects the monster carries
RECURSIVE carry_gold(_, _)
carry_gold(w, gold) ==
  IF gold > 0
  THEN LET amt == IF gold > MAX_PVAL THEN MAX_PVAL ELSE gold
           obj == [ object_new EXCEPT !.pval = amt, !.origin = "STOLEN" ]
       IN  carry_gold(monster_carry(w, obj), gold - amt)
  ELSE w

\* EAT_GOLD_steal without "if (gold > current_player->au)"
EAT_GOLD_steal_uncapped(w, r25, r3000) ==
  LET au    == w.p.au
      gold0 == (au \div 10) + r25
      gold1 == IF gold0 < 2 THEN 2 ELSE gold0
      gold  == IF gold1 > 5000 THEN (au \div 20) + r3000 ELSE gold1
      w0    == Log(w, "randint1(25)", r25)
      w1    == IF gold1 > 5000 THEN Log(w0, "randint1(3000)", r3000) ELSE w0
      w2    == Log([ w1 EXCEPT !.p.au = @ - gold ], "gold_stolen", gold)
      w3    == carry_gold(w2, gold)
  IN  IF gold <= 0 THEN Log(w2, "Nothing was stolen.", 0)
      ELSE [ w3 EXCEPT !.p.redraw = @ \cup {"PR_GOLD"},
                       !.ctx.blinked = TRUE ]

\* EAT_GOLD_steal leaving through "Nothing was stolen." only below zero
EAT_GOLD_steal_noexit(w, r25, r3000) ==
  LET au    == w.p.au
      gold0 == (au \div 10) + r25
      gold1 == IF gold0 < 2 THEN 2 ELSE gold0
      gold2 == IF gold1 > 5000 THEN (au \div 20) + r3000 ELSE gold1
      gold  == IF gold2 > au THEN au ELSE gold2
      w0    == Log(w, "randint1(25)", r25)
      w1    == IF gold1 > 5000 THEN Log(w0, "randint1(3000)", r3000) ELSE w0
      w2    == Log([ w1 EXCEPT !.p.au = @ - gold ], "gold_stolen", gold)
      w3    == carry_gold(w2, gold)
  IN  IF gold < 0 THEN Log(w2, "Nothing was stolen.", 0)
      ELSE [ w3 EXCEPT !.p.redraw = @ \cup {"PR_GOLD"},
                       !.ctx.blinked = TRUE ]

\* the failed saving throw of EAT_GOLD, with its two random draws
EAT_GOLD_steal(w, r25, r3000) ==
  LET au    == w.p.au
      gold0 == (au \div 10) + r25
      gold1 == IF gold0 < 2 THEN 2 ELSE gold0
      gold2 == IF gold1 > 5000 THEN (au \div 20) + r3000 ELSE gold1
      gold  == IF gold2 > au THEN au ELSE gold2
      w0    == Log(w, "randint1(25)", r25)
      w1    == IF gold1 > 5000 THEN Log(w0, "randint1(3000)", r3000) ELSE w0
      w2    == Log([ w1 EXCEPT !.p.au = @ - gold ], "gold_stolen", gold)
      w3    == carry_gold(w2, gold)
  IN  IF gold <= 0 THEN Log(w2, "Nothing was stolen.", 0)
      ELSE [ w3 EXCEPT !.p.redraw = @ \cup {"PR_GOLD"},
                       !.ctx.blinked = TRUE ]

\* the draws EAT_GOLD makes on a world: the saving throw when the defender
\* survives unparalyzed, the blink on a save, the amount when robbed, the
\* second amount when the first exceeds 5000
EAT_GOLD_throws(w) ==
  ~take_hit(w, w.ctx.damage).p.is_dead /\ w.p.timed["PARALYZED"] = 0

EAT_GOLD_saved(w, roll) ==
  EAT_GOLD_throws(w) /\ roll < w.p.adj_dex_safe + w.p.lev

EAT_GOLD_robbed(w, roll) ==
  ~take_hit(w, w.ctx.damage).p.is_dead /\ ~EAT_GOLD_saved(w, roll)

EAT_GOLD_recomputed(w, r25) == MAX((w.p.au \div 10) + r25, 2) > 5000

\* EAT_GOLD on the draws roll (saving throw), blink (randint0(3)), r25 and
\* r3000; a draw the path does not make is passed as 0
melee_effect_handler_EAT_GOLD(w, roll, blink, r25, r3000) ==
  LET w1 == take_hit(w, w.ctx.damage)
      w2 == [ w1 EXCEPT !.ctx.obvious = TRUE ]
      w3 == IF w2.p.timed["PARALYZED"] = 0
            THEN Log(w2, "randint0(100)", roll) ELSE w2
  IN  IF w1.p.is_dead THEN w1
      ELSE IF w2.p.timed["PARALYZED"] = 0
              /\ roll < w2.p.adj_dex_safe + w2.p.lev
           THEN Log([ w3 EXCEPT !.ctx.blinked = IF blink # 0 THEN TRUE ELSE @ ],
                    "randint0(3)", blink)
           ELSE EAT_GOLD_steal(w3, r25, r3000)

\* EAT_ITEM up to the "Find an item" loop
melee_effect_handler_EAT_ITEM(w) ==
  LET w1 == take_hit(w, w.ctx.damage)
      Saved(v) == [ v EXCEPT !.ctx.blinked = TRUE, !.ctx.obvious = TRUE ]
      Scan(v) == [ v EXCEPT !.pc = "scan", !.tries = 0 ]
  IN  IF w1.p.is_dead THEN { w1 }
      ELSE IF w1.p.timed["PARALYZED"] = 0
           THEN { IF roll < w1.p.adj_dex_safe + w1.p.lev
                  THEN Saved(Log(w1, "randint0(100)", roll))
                  ELSE Scan(Log(w1, "randint0(100)", roll)) :
                  roll \in randint0(100) }
           ELSE { Scan(w1) }

\* EAT_ITEM_try without the "Skip artifacts" test
EAT_ITEM_try_artifact(w, index) ==
  LET obj == w.p.inven[index]
      use == gear_object_for_use(Log(w, "stolen", index), index)
      w1  == monster_carry(use[1], use[2])
  IN  IF obj = NULL THEN [ w EXCEPT !.tries = @ + 1 ]
      ELSE Done([ w1 EXCEPT !.ctx.obvious = TRUE, !.ctx.blinked = TRUE ])

\* one pass of the loop of EAT_ITEM on the slot picked
EAT_ITEM_try(w, index) ==
  LET obj == w.p.inven[index]
      use == gear_object_for_use(Log(w, "stolen", index), index)
      w1  == monster_carry(use[1], use[2])
  IN  IF obj = NULL THEN [ w EXCEPT !.tries = @ + 1 ]
      ELSE IF obj.artifact THEN [ w EXCEPT !.tries = @ + 1 ]
      ELSE Done([ w1 EXCEPT !.ctx.obvious = TRUE, !.ctx.blinked = TRUE ])

\* EAT_FOOD up to its loop
melee_effect_handler_EAT_FOOD(w) ==
  LET w1 == take_hit(w, w.ctx.damage)
  IN  IF w1.p.is_dead THEN { w1 }
      ELSE { [ w1 EXCEPT !.pc = "scan", !.tries = 0 ] }

\* one pass of the loop of EAT_FOOD on the slot picked
EAT_FOOD_try(w, index) ==
  LET obj == w.p.inven[index]
      use == gear_object_for_use(Log(w, "eaten", index), index)
      w1  == object_delete(use[1], use[2])
  IN  IF obj = NULL THEN [ w EXCEPT !.tries = @ + 1 ]
      ELSE IF ~tval_is_edible(obj) THEN [ w EXCEPT !.tries = @ + 1 ]
      ELSE Done([ w1 EXCEPT !.ctx.obvious = TRUE ])

melee_effect_handler_EAT_LIGHT(w) ==
  LET w1 == take_hit(w, w.ctx.damage)
  IN  IF w1.p.is_dead THEN { w1 } ELSE effect_simple(w1, "EF_DRAIN_LIGHT")

melee_effect_handler_ACID(w) == melee_effect_elemental(w, "ACID", TRUE)
melee_effect_handler_ELEC(w) == melee_effect_elemental(w, "ELEC", TRUE)
melee_effect_handler_FIRE(w) == melee_effect_elemental(w, "FIRE", TRUE)
melee_effect_handler_COLD(w) == melee_effect_elemental(w, "COLD", TRUE)

melee_effect_handler_BLIND(w) ==
  UNION { melee_effect_timed(w, "BLIND", 10 + n, FALSE) :
          n \in randint1(w.ctx.rlev) }

melee_effect_handler_CONFUSE(w) ==
  UNION { melee_effect_timed(w, "CONFUSED", 3 + n, FALSE) :
          n \in randint1(w.ctx.rlev) }

melee_effect_handler_TERRIFY(w) ==
  UNION { melee_effect_timed(w, "AFRAID", 3 + n, TRUE) :
          n \in randint1(w.ctx.rlev) }

melee_effect_handler_PARALYZE(w) ==
  LET w1 == IF w.p.timed["PARALYZED"] # 0 /\ w.ctx.damage < 1
            THEN [ w EXCEPT !.ctx.damage = 1 ] ELSE w
  IN  UNION { melee_effect_timed(w1, "PARALYZED", 3 + n, TRUE) :
              n \in randint1(w1.ctx.rlev) }

melee_effect_handler_LOSE_STR(w) == melee_effect_stat(w, "STAT_STR")
melee_effect_handler_LOSE_INT(w) == melee_effect_stat(w, "STAT_INT")
melee_effect_handler_LOSE_WIS(w) == melee_effect_stat(w, "STAT_WIS")
melee_effect_handler_LOSE_DEX(w) == melee_effect_stat(w, "STAT_DEX")
melee_effect_handler_LOSE_CON(w) == melee_effect_stat(w, "STAT_CON")

melee_effect_handler_LOSE_ALL(w) ==
  LET w1 == take_hit(w, w.ctx.damage)
      S(v) == effect_simple(v, "STAT_STR")
      D(v) == effect_simple(v, "STAT_DEX")
      C(v) == effect_simple(v, "STAT_CON")
      I(v) == effect_simple(v, "STAT_INT")
      W(v) == effect_simple(v, "STAT_WIS")
  IN  IF w1.p.is_dead THEN { w1 }
      ELSE Bind(Bind(Bind(Bind(S(w1), D), C), I), W)

\* SHATTER quaking from 23 points of damage on
melee_effect_handler_SHATTER_from23(w) ==
  LET dam == adjust_dam_armor(w.ctx.damage, w.ctx.ac)
      w1 == take_hit([ w EXCEPT !.ctx.obvious = TRUE, !.ctx.damage = dam ], dam)
  IN  IF w1.p.is_dead THEN { w1 }
      ELSE IF w1.ctx.damage >= ShatterThreshold
           THEN { IF v.p.pos # w1.p.pos
                  THEN [ v EXCEPT !.ctx.do_break = TRUE ] ELSE v :
                  v \in EF_EARTHQUAKE(w1) }
           ELSE { w1 }

melee_effect_handler_SHATTER(w) ==
  LET dam == adjust_dam_armor(w.ctx.damage, w.ctx.ac)
      w1 == take_hit([ w EXCEPT !.ctx.obvious = TRUE, !.ctx.damage = dam ], dam)
  IN  IF w1.p.is_dead THEN { w1 }
      ELSE IF w1.ctx.damage > ShatterThreshold
           THEN { IF v.p.pos # w1.p.pos
                  THEN [ v EXCEPT !.ctx.do_break = TRUE ] ELSE v :
                  v \in EF_EARTHQUAKE(w1) }
           ELSE { w1 }

melee_effect_handler_EXP_10(w) ==
  UNION { melee_effect_experience(w, 95, d) : d \in damroll(10, 6) }
melee_effect_handler_EXP_20(w) ==
  UNION { melee_effect_experience(w, 90, d) : d \in damroll(20, 6) }
melee_effect_handler_EXP_40(w) ==
  UNION { melee_effect_experience(w, 75, d) : d \in damroll(40, 6) }
melee_effect_handler_EXP_80(w) ==
  UNION { melee_effect_experience(w, 50, d) : d \in damroll(80, 6) }

melee_effect_handler_HALLU(w) ==
  LET w1 == take_hit(w, w.ctx.damage)
  IN  IF w1.p.is_dead THEN { w1 }
      ELSE UNION
        { { update_smart_learn(
              IF r.changed THEN [ r.w EXCEPT !.ctx.obvious = TRUE ] ELSE r.w) :
            r \in player_inc_timed(w1, "IMAGE", 3 + n) } :
          n \in randint1(w1.ctx.rlev \div 2) }

(* ----------------------------------------------------------------------- *)
(* The registry: melee_handler_for_blow_effect                             *)
(* ----------------------------------------------------------------------- *)
\* A C string is the sequence of its characters; NUL ends it.
NUL == "NUL"
UpperCase == << "A", "B", "C", "D", "E", "F", "G", "H", "I", "J", "K", "L", "M", "N", "O", "P", "Q", "R", "S", "T", "U", "V", "W", "X", "Y", "Z" >>
LowerCase == << "a", "b", "c", "d", "e", "f", "g", "h", "i", "j", "k", "l", "m", "n", "o", "p", "q", "r", "s", "t", "u", "v", "w", "x", "y", "z" >>

toupper(c) ==
  IF \E i \in 1..26 : LowerCase[i] = c
  THEN UpperCase[CHOOSE i \in 1..26 : LowerCase[i] = c]
  ELSE c

tolower(c) ==
  IF \E i \in 1..26 : UpperCase[i] = c
  THEN LowerCase[CHOOSE i \in 1..26 : UpperCase[i] = c]
  ELSE c

CharAt(s, i) == IF i <= Len(s) THEN s[i] ELSE NUL

\* my_stricmp: 0 when the strings are equal ignoring case, else nonzero
RECURSIVE stricmp_from(_, _, _)
stricmp_from(s1, s2, i) ==
  IF CharAt(s1, i) = NUL /\ CharAt(s2, i) = NUL THEN 0
  ELSE IF toupper(CharAt(s1, i)) # toupper(CharAt(s2, i)) THEN 1
  ELSE stricmp_from(s1, s2, i + 1)

my_stricmp(s1, s2) == stricmp_from(s1, s2, 1)

\* a null name pointer, which is no string
NullName == << "(null)" >>

effect_handlers ==
  << 
     [ name |-> <<"N", "O", "N", "E">>,
       function |-> "NONE" ],
     [ name |-> <<"H", "U", "R", "T">>,
       function |-> "HURT" ],
     [ name |-> <<"P", "O", "I", "S", "O", "N">>,
       function |-> "POISON" ],
     [ name |-> <<"D", "I", "S", "E", "N", "C", "H", "A", "N", "T">>,
       function |-> "DISENCHANT" ],
     [ name |-> <<"D", "R", "A", "I", "N", "_", "C", "H", "A", "R", "G", "E", "S">>,
       function |-> "DRAIN_CHARGES" ],
     [ name |-> <<"E", "A", "T", "_", "G", "O", "L", "D">>,
       function |-> "EAT_GOLD" ],
     [ name |-> <<"E", "A", "T", "_", "I", "T", "E", "M">>,
       function |-> "EAT_ITEM" ],
     [ name |-> <<"E", "A", "T", "_", "F", "O", "O", "D">>,
       function |-> "EAT_FOOD" ],
     [ name |-> <<"E", "A", "T", "_", "L", "I", "G", "H", "T">>,
       function |-> "EAT_LIGHT" ],
     [ name |-> <<"A", "C", "I", "D">>,
       function |-> "ACID" ],
     [ name |-> <<"E", "L", "E", "C">>,
       function |-> "ELEC" ],
     [ name |-> <<"F", "I", "R", "E">>,
       function |-> "FIRE" ],
     [ name |-> <<"C", "O", "L", "D">>,
       function |-> "COLD" ],
     [ name |-> <<"B", "L", "I", "N", "D">>,
       function |-> "BLIND" ],
     [ name |-> <<"C", "O", "N", "F", "U", "S", "E">>,
       function |-> "CONFUSE" ],
     [ name |-> <<"T", "E", "R", "R", "I", "F", "Y">>,
       function |-> "TERRIFY" ],
     [ name |-> <<"P", "A", "R", "A", "L", "Y", "Z", "E">>,
       function |-> "PARALYZE" ],
     [ name |-> <<"L", "O", "S", "E", "_", "S", "T", "R">>,
       function |-> "LOSE_STR" ],
     [ name |-> <<"L", "O", "S", "E", "_", "I", "N", "T">>,
       function |-> "LOSE_INT" ],
     [ name |-> <<"L", "O", "S", "E", "_", "W", "I", "S">>,
       function |-> "LOSE_WIS" ],
     [ name |-> <<"L", "O", "S", "E", "_", "D", "E", "X">>,
       function |-> "LOSE_DEX" ],
     [ name |-> <<"L", "O", "S", "E", "_", "C", "O", "N">>,
       function |-> "LOSE_CON" ],
     [ name |-> <<"L", "O", "S", "E", "_", "A", "L", "L">>,
       function |-> "LOSE_ALL" ],
     [ name |-> <<"S", "H", "A", "T", "T", "E", "R">>,
       function |-> "SHATTER" ],
     [ name |-> <<"E", "X", "P", "_", "1", "0">>,
       function |-> "EXP_10" ],
     [ name |-> <<"E", "X", "P", "_", "2", "0">>,
       function |-> "EXP_20" ],
     [ name |-> <<"E", "X", "P", "_", "4", "0">>,
       function |-> "EXP_40" ],
     [ name |-> <<"E", "X", "P", "_", "8", "0">>,
       function |-> "EXP_80" ],
     [ name |-> <<"H", "A", "L", "L", "U">>,
       function |-> "HALLU" ],
     [ name |-> NullName, function |-> "NULL" ] >>

\* lookup_step comparing with streq, case and all
lookup_step_streq(l) ==
  LET current == effect_handlers[l.current]
  IN  IF current.name # NullName /\ current.function # "NULL"
      THEN IF l.name = current.name
           THEN [ l EXCEPT !.result = current.function, !.returned = TRUE ]
           ELSE [ l EXCEPT !.current = @ + 1 ]
      ELSE [ l EXCEPT !.result = "NULL", !.returned = TRUE ]

\* one evaluation of the while loop of melee_handler_for_blow_effect
lookup_step(l) ==
  LET current == effect_handlers[l.current]
  IN  IF current.name # NullName /\ current.function # "NULL"
      THEN IF my_stricmp(l.name, current.name) = 0
           THEN [ l EXCEPT !.result = current.function, !.returned = TRUE ]
           ELSE [ l EXCEPT !.current = @ + 1 ]
      ELSE [ l EXCEPT !.result = "NULL", !.returned = TRUE ]

(* ----------------------------------------------------------------------- *)
(* The state machine of one blow                                           *)
(* ----------------------------------------------------------------------- *)
TMD == { "BLIND", "CONFUSED", "AFRAID", "PARALYZED", "POISONED", "IMAGE" }

Slots == 0 .. (PackSize - 1)

Obj(kind, artifact, number, pval, level) ==
  [ kind |-> kind, artifact |-> artifact, number |-> number, pval |-> pval,
    level |-> level, origin |-> "NONE" ]

\* a pack with a charged wand, a stack of food and an artifact in it
DefaultPack ==
  [ i \in Slots |->
      IF i = 0 THEN Obj("wand", FALSE, 1, 4, 1)
      ELSE IF i = 1 THEN Obj("food", FALSE, MaxStack, 0, 0)
      ELSE IF i = 2 THEN Obj("sword", TRUE, 1, 0, 0)
      ELSE NULL ]

DefaultCtx ==
  [ handler |-> "NONE", damage |-> 0, ac |-> 0, rlev |-> MaxRlev,
    phys |-> TRUE, obvious |-> FALSE, blinked |-> FALSE, do_break |-> FALSE ]

DefaultPlayer ==
  [ chp |-> 100, is_dead |-> FALSE, exp |-> 1000, au |-> 100, lev |-> 5,
    adj_dex_safe |-> 10, skill_save |-> 30, hold_life |-> FALSE,
    resist_disen |-> FALSE, timed |-> [ t \in TMD |-> 0 ], pos |-> 0,
    inven |-> DefaultPack, health_who |-> TRUE, redraw |-> {}, notice |-> {} ]

DefaultMon == [ hp |-> 8, maxhp |-> 10, held |-> << >> ]

DefaultZ == [ pack_size |-> PackSize, life_drain_percent |-> 10 ]

IdleLookup == [ name |-> << >>, current |-> 1, result |-> "NULL",
                returned |-> TRUE ]

\* the caller has built the context and is about to call the handler
Start(C, P, M, Z) ==
  /\ pc = "call"
  /\ ctx \in C
  /\ p \in P
  /\ mon \in M
  /\ z_info \in Z
  /\ effects = << >>
  /\ tries = 0
  /\ entry = [ ctx |-> ctx, p |-> p, mon |-> mon ]
  /\ lk = IdleLookup

Set(w) ==
  /\ pc' = IF w.pc = "call" THEN "done" ELSE w.pc
  /\ ctx' = w.ctx
  /\ p' = w.p
  /\ mon' = w.mon
  /\ effects' = w.effects
  /\ tries' = w.tries
  /\ UNCHANGED <<z_info, entry, lk>>

\* the caller calls the handler the registry gave it for the blow's effect
NONE ==
  /\ pc = "call"
  /\ ctx.handler = "NONE"
  /\ \E w \in melee_effect_handler_NONE(World) : Set(w)

HURT ==
  /\ pc = "call"
  /\ ctx.handler = "HURT"
  /\ \E w \in melee_effect_handler_HURT(World) : Set(w)

POISON ==
  /\ pc = "call"
  /\ ctx.handler = "POISON"
  /\ \E w \in melee_effect_handler_POISON(World) : Set(w)

DISENCHANT ==
  /\ pc = "call"
  /\ ctx.handler = "DISENCHANT"
  /\ \E w \in melee_effect_handler_DISENCHANT(World) : Set(w)

DRAIN_CHARGES ==
  /\ pc = "call"
  /\ ctx.handler = "DRAIN_CHARGES"
  /\ \E w \in melee_effect_handler_DRAIN_CHARGES(World) : Set(w)

EAT_GOLD ==
  /\ pc = "call"
  /\ ctx.handler = "EAT_GOLD"
  /\ \E roll \in IF EAT_GOLD_throws(World) THEN randint0(100) ELSE {0} :
     \E blink \in IF EAT_GOLD_saved(World, roll) THEN randint0(3) ELSE {0} :
     \E r25 \in IF EAT_GOLD_robbed(World, roll) THEN randint1(25) ELSE {0} :
     \E r3000 \in IF EAT_GOLD_robbed(World, roll)
                      /\ EAT_GOLD_recomputed(World, r25)
                   THEN randint1(3000) ELSE {0} :
       Set(melee_effect_handler_EAT_GOLD(World, roll, blink, r25, r3000))

EAT_ITEM ==
  /\ pc = "call"
  /\ ctx.handler = "EAT_ITEM"
  /\ \E w \in melee_effect_handler_EAT_ITEM(World) : Set(w)

EAT_FOOD ==
  /\ pc = "call"
  /\ ctx.handler = "EAT_FOOD"
  /\ \E w \in melee_effect_handler_EAT_FOOD(World) : Set(w)

EAT_LIGHT ==
  /\ pc = "call"
  /\ ctx.handler = "EAT_LIGHT"
  /\ \E w \in melee_effect_handler_EAT_LIGHT(World) : Set(w)

ACID ==
  /\ pc = "call"
  /\ ctx.handler = "ACID"
  /\ \E w \in melee_effect_handler_ACID(World) : Set(w)

ELEC ==
  /\ pc = "call"
  /\ ctx.handler = "ELEC"
  /\ \E w \in melee_effect_handler_ELEC(World) : Set(w)

FIRE ==
  /\ pc = "call"
  /\ ctx.handler = "FIRE"
  /\ \E w \in melee_effect_handler_FIRE(World) : Set(w)

COLD ==
  /\ pc = "call"
  /\ ctx.handler = "COLD"
  /\ \E w \in melee_effect_handler_COLD(World) : Set(w)

BLIND ==
  /\ pc = "call"
  /\ ctx.handler = "BLIND"
  /\ \E w \in melee_effect_handler_BLIND(World) : Set(w)

CONFUSE ==
  /\ pc = "call"
  /\ ctx.handler = "CONFUSE"
  /\ \E w \in melee_effect_handler_CONFUSE(World) : Set(w)

TERRIFY ==
  /\ pc = "call"
  /\ ctx.handler = "TERRIFY"
  /\ \E w \in melee_effect_handler_TERRIFY(World) : Set(w)

PARALYZE ==
  /\ pc = "call"
  /\ ctx.handler = "PARALYZE"
  /\ \E w \in melee_effect_handler_PARALYZE(World) : Set(w)

LOSE_STR ==
  /\ pc = "call"
  /\ ctx.handler = "LOSE_STR"
  /\ \E w \in melee_effect_handler_LOSE_STR(World) : Set(w)

LOSE_INT ==
  /\ pc = "call"
  /\ ctx.handler = "LOSE_INT"
  /\ \E w \in melee_effect_handler_LOSE_INT(World) : Set(w)

LOSE_WIS ==
  /\ pc = "call"
  /\ ctx.handler = "LOSE_WIS"
  /\ \E w \in melee_effect_handler_LOSE_WIS(World) : Set(w)

LOSE_DEX ==
  /\ pc = "call"
  /\ ctx.handler = "LOSE_DEX"
  /\ \E w \in melee_effect_handler_LOSE_DEX(World) : Set(w)

LOSE_CON ==
  /\ pc = "call"
  /\ ctx.handler = "LOSE_CON"
  /\ \E w \in melee_effect_handler_LOSE_CON(World) : Set(w)

LOSE_ALL ==
  /\ pc = "call"
  /\ ctx.handler = "LOSE_ALL"
  /\ \E w \in melee_effect_handler_LOSE_ALL(World) : Set(w)

SHATTER ==
  /\ pc = "call"
  /\ ctx.handler = "SHATTER"
  /\ \E w \in melee_effect_handler_SHATTER(World) : Set(w)

EXP_10 ==
  /\ pc = "call"
  /\ ctx.handler = "EXP_10"
  /\ \E w \in melee_effect_handler_EXP_10(World) : Set(w)

EXP_20 ==
  /\ pc = "call"
  /\ ctx.handler = "EXP_20"
  /\ \E w \in melee_effect_handler_EXP_20(World) : Set(w)

EXP_40 ==
  /\ pc = "call"
  /\ ctx.handler = "EXP_40"
  /\ \E w \in melee_effect_handler_EXP_40(World) : Set(w)

EXP_80 ==
  /\ pc = "call"
  /\ ctx.handler = "EXP_80"
  /\ \E w \in melee_effect_handler_EXP_80(World) : Set(w)

HALLU ==
  /\ pc = "call"
  /\ ctx.handler = "HALLU"
  /\ \E w \in melee_effect_handler_HALLU(World) : Set(w)


\* for (tries = 0; tries < 10; tries++) of the three scanning handlers
DRAIN_CHARGES_loop ==
  /\ pc = "scan"
  /\ ctx.handler = "DRAIN_CHARGES"
  /\ IF tries < MaxTries
     THEN \E index \in randint0(z_info.pack_size) :
            Set(DRAIN_CHARGES_try(World, index))
     ELSE Set(Done(World))

EAT_ITEM_loop ==
  /\ pc = "scan"
  /\ ctx.handler = "EAT_ITEM"
  /\ IF tries < MaxTries
     THEN \E index \in randint0(z_info.pack_size) :
            Set(EAT_ITEM_try(World, index))
     ELSE Set(Done(World))

EAT_FOOD_loop ==
  /\ pc = "scan"
  /\ ctx.handler = "EAT_FOOD"
  /\ IF tries < MaxTries
     THEN \E index \in randint0(z_info.pack_size) :
            Set(EAT_FOOD_try(World, index))
     ELSE Set(Done(World))

\* the registry resolves a name, one table entry at a time
Lookup ==
  /\ pc = "lookup"
  /\ ~lk.returned
  /\ lk' = lookup_step(lk)
  /\ UNCHANGED <<pc, ctx, p, mon, effects, tries, z_info, entry>>

(* ----------------------------------------------------------------------- *)
(* Every handler, on a small range of blows                                *)
(* ----------------------------------------------------------------------- *)
\* the three output flags are all clear or all set on entry
Init ==
  Start({ [ DefaultCtx EXCEPT !.handler = h, !.damage = d, !.obvious = f,
                              !.blinked = f, !.do_break = f ] :
          h \in Handlers, d \in {0, 30}, f \in BOOLEAN },
        { [ DefaultPlayer EXCEPT !.chp = c, !.hold_life = hl,
                                 !.timed["PARALYZED"] = par ] :
          c \in {10, 100}, hl \in BOOLEAN, par \in {0, 5} },
        { DefaultMon }, { DefaultZ })

Next ==
  \/ NONE
  \/ HURT
  \/ POISON
  \/ DISENCHANT
  \/ DRAIN_CHARGES
  \/ EAT_GOLD
  \/ EAT_ITEM
  \/ EAT_FOOD
  \/ EAT_LIGHT
  \/ ACID
  \/ ELEC
  \/ FIRE
  \/ COLD
  \/ BLIND
  \/ CONFUSE
  \/ TERRIFY
  \/ PARALYZE
  \/ LOSE_STR
  \/ LOSE_INT
  \/ LOSE_WIS
  \/ LOSE_DEX
  \/ LOSE_CON
  \/ LOSE_ALL
  \/ SHATTER
  \/ EXP_10
  \/ EXP_20
  \/ EXP_40
  \/ EXP_80
  \/ HALLU
  \/ DRAIN_CHARGES_loop
  \/ EAT_ITEM_loop
  \/ EAT_FOOD_loop

Spec == Init /\ [][Next]_vars

(* ----------------------------------------------------------------------- *)
(* Properties                                                              *)
(* ----------------------------------------------------------------------- *)
\* the last thing the handler did
LastEffect == IF effects = << >> THEN "none" ELSE effects[Len(effects)][1]

\* C1: once the damage step has left the defender dead, a handler does
\* nothing more: the damage is the last effect of the invocation.
C1_NothingAfterDeath == p.is_dead => LastEffect = "take_hit"

\* C9: no step of a handler turns obvious, blinked or do_break from true to
\* false, so a flag set on entry or on the way is set on return.
C9_FlagsMonotonic ==
  [][ /\ ctx.obvious => ctx'.obvious
      /\ ctx.blinked => ctx'.blinked
      /\ ctx.do_break => ctx'.do_break ]_vars

\* a timed-status handler returned with the flags set on entry although
\* player_inc_timed reported no change
C9_Witness ==
  /\ pc = "done"
  /\ ctx.handler = "TERRIFY"
  /\ entry.ctx.obvious /\ entry.ctx.blinked /\ entry.ctx.do_break
  /\ ctx.obvious /\ ctx.blinked /\ ctx.do_break
  /\ LastEffect = "update_smart_learn"
  /\ p.timed = entry.p.timed

(* ----------------------------------------------------------------------- *)
(* The elemental family on a range of damage, armour and resistance        *)
(* ----------------------------------------------------------------------- *)
ElementalHandlers == { "ACID", "ELEC", "FIRE", "COLD", "POISON" }

InitElemental ==
  Start({ [ DefaultCtx EXCEPT !.handler = h, !.damage = d, !.ac = a,
                              !.phys = ph ] :
          h \in ElementalHandlers, d \in {0, 1, 7, 30, 40, 100},
          a \in {0, 50, 150, 190, 300}, ph \in BOOLEAN },
        { [ DefaultPlayer EXCEPT !.chp = c ] : c \in {10, 200} },
        { DefaultMon }, { DefaultZ })

NextElemental == ACID \/ ELEC \/ FIRE \/ COLD \/ POISON

SpecElemental == InitElemental /\ [][NextElemental]_vars

\* the value adjust_dam returned in this invocation
ElementalMitigated == effects[1][2]

\* the damage amounts the defender was hit with
Hits == { effects[i][2] : i \in { j \in DOMAIN effects : effects[j][1] = "take_hit" } }

HitOnlyWith(final) ==
  /\ final > 0 => Hits = { final } /\ p.chp = entry.p.chp - final
  /\ final <= 0 => Hits = {} /\ p.chp = entry.p.chp

\* C2 as stated: the final damage is the larger of the raw damage mitigated
\* by the armour rating of the context and the resistance-mitigated damage,
\* and the latter alone for a method that deals no physical damage.
C2_MaxOfArmorAndElement ==
  (pc = "done" /\ ctx.handler \in ElementalHandlers) =>
    LET physicalMitigated == adjust_dam_armor(entry.ctx.damage, entry.ctx.ac)
    IN  /\ entry.ctx.phys =>
             ctx.damage = MAX(physicalMitigated, ElementalMitigated)
        /\ ~entry.ctx.phys => ctx.damage = ElementalMitigated
        /\ HitOnlyWith(ctx.damage)

\* C2 amended: the physical damage is the raw damage mitigated by the armour
\* rating plus the bonus of 50 given against elemental attacks, and zero for a
\* method that deals no physical damage; the final damage is the larger of it
\* and the resistance-mitigated damage, and the defender is hit with exactly
\* that damage, and only when it is positive.
C2_MaxOfBonusArmorAndElement ==
  (pc = "done" /\ ctx.handler \in ElementalHandlers) =>
    LET physicalMitigated ==
          IF entry.ctx.phys
          THEN adjust_dam_armor(entry.ctx.damage, entry.ctx.ac + 50) ELSE 0
    IN  /\ ctx.damage = MAX(physicalMitigated, ElementalMitigated)
        /\ ~entry.ctx.phys => ctx.damage = ElementalMitigated
        /\ HitOnlyWith(ctx.damage)

\* a non-physical blow fully resisted although armour would have let damage
\* through: nothing is dealt
C2_Witness ==
  /\ pc = "done"
  /\ ctx.handler = "FIRE"
  /\ ~entry.ctx.phys
  /\ entry.ctx.damage = 40
  /\ ElementalMitigated = 0
  /\ ctx.damage = 0
  /\ Hits = {}

(* ----------------------------------------------------------------------- *)
(* Item and food theft on every pack of a few kinds of item                *)
(* ----------------------------------------------------------------------- *)
PackItems ==
  { NULL,
    Obj("food", FALSE, 1, 0, 0), Obj("food", FALSE, MaxStack, 0, 0),
    Obj("food", TRUE, 1, 0, 0),
    Obj("sword", FALSE, 1, 0, 0), Obj("sword", TRUE, 1, 0, 0),
    Obj("wand", FALSE, MaxStack, 5, 1) }

\* the defender is paralyzed, so item theft goes straight to its scan
InitTheft ==
  Start({ [ DefaultCtx EXCEPT !.handler = h ] : h \in { "EAT_ITEM", "EAT_FOOD" } },
        { [ DefaultPlayer EXCEPT !.inven = inv, !.timed["PARALYZED"] = 5 ] :
          inv \in [ Slots -> PackItems ] },
        { DefaultMon }, { DefaultZ })

NextTheft == EAT_ITEM \/ EAT_FOOD \/ EAT_ITEM_loop \/ EAT_FOOD_loop

SpecTheft == InitTheft /\ [][NextTheft]_vars

\* the pack slots a theft selected in this invocation
Selected(what) ==
  { effects[i][2] : i \in { j \in DOMAIN effects : effects[j][1] = what } }

\* exactly one unit left slot i of the pack, and nothing else changed in it
OneUnitRemoved(i) ==
  /\ entry.p.inven[i] # NULL
  /\ p.inven[i].number = entry.p.inven[i].number - 1
  /\ \A j \in Slots : j # i => p.inven[j] = entry.p.inven[j]

\* the unit taken from slot i, as it was in the pack on entry
UnitOf(i) ==
  [ entry.p.inven[i] EXCEPT
      !.number = 1,
      !.pval = IF entry.p.inven[i].kind = "wand"
               THEN @ \div entry.p.inven[i].number ELSE @ ]

ItemTheftTransfers ==
  \A i \in Selected("stolen") :
    /\ OneUnitRemoved(i)
    /\ mon.held = Append(entry.mon.held, UnitOf(i))

FoodTheftDestroys ==
  \A i \in Selected("eaten") :
    /\ OneUnitRemoved(i)
    /\ mon.held = entry.mon.held
    /\ \E k \in DOMAIN effects : effects[k] = <<"object_delete", 1>>

\* C3 as stated: neither theft selects an artifact; food theft destroys the
\* one unit it takes, item theft hands the one unit it takes to the attacker.
C3_NeverArtifact ==
  /\ \A i \in Selected("stolen") \cup Selected("eaten") :
       ~entry.p.inven[i].artifact
  /\ ItemTheftTransfers
  /\ FoodTheftDestroys

\* C3 amended: item theft never selects an artifact; food theft selects only
\* edible items and does not look at the artifact flag; food theft destroys
\* the one unit it takes, item theft hands the one unit it takes to the
\* attacker.
C3_ItemNeverArtifactFoodEdible ==
  /\ \A i \in Selected("stolen") : ~entry.p.inven[i].artifact
  /\ \A i \in Selected("eaten") : tval_is_edible(entry.p.inven[i])
  /\ Cardinality(Selected("stolen") \cup Selected("eaten")) <= 1
  /\ ItemTheftTransfers
  /\ FoodTheftDestroys

\* item theft split a stack in a pack that also holds an artifact
C3_Witness ==
  /\ pc = "done"
  /\ ctx.handler = "EAT_ITEM"
  /\ \E i \in Selected("stolen") :
       /\ entry.p.inven[i].number > 1
       /\ p.inven[i].number = entry.p.inven[i].number - 1
  /\ \E j \in Slots : entry.p.inven[j].artifact
  /\ Len(mon.held) = 1

(* ----------------------------------------------------------------------- *)
(* Gold theft on a range of purses                                         *)
(* ----------------------------------------------------------------------- *)
\* a paralyzed defender with any purse, and a defender who may save with a
\* small one
InitGold ==
  Start({ [ DefaultCtx EXCEPT !.handler = "EAT_GOLD" ] },
        { [ DefaultPlayer EXCEPT !.au = a, !.timed["PARALYZED"] = 5 ] :
          a \in {0, 1, 9, 15, 100, 49760, 1000000} }
        \cup { [ DefaultPlayer EXCEPT !.au = a ] : a \in {0, 100} },
        { DefaultMon }, { DefaultZ })

NextGold == EAT_GOLD

SpecGold == InitGold /\ [][NextGold]_vars

\* the values logged under a name in this invocation
Logged(name) ==
  { effects[i][2] : i \in { j \in DOMAIN effects : effects[j][1] = name } }

\* C4: the gold stolen after a failed save is floor(au/10) + random(1..25)
\* raised to at least 2, recomputed as floor(au/20) + random(1..3000) exactly
\* when that exceeds 5000, and never more than the defender holds; the
\* defender's gold falls by exactly that amount and is never negative.
C4_GoldStolenBounded ==
  \A g \in Logged("gold_stolen") :
    \E r25 \in Logged("randint1(25)") :
      LET au     == entry.p.au
          naive  == (au \div 10) + r25
          raised == IF naive < 2 THEN 2 ELSE naive
      IN  /\ r25 \in 1..25
          /\ (Logged("randint1(3000)") # {}) <=> (raised > 5000)
          /\ raised > 5000 =>
               \E r3000 \in Logged("randint1(3000)") :
                 /\ r3000 \in 1..3000
                 /\ g = MIN((au \div 20) + r3000, au)
          /\ raised <= 5000 => g = MIN(raised, au)
          /\ g <= au
          /\ p.au = au - g
          /\ p.au >= 0
          /\ au = 100 => (2 <= g /\ g <= 100)
          /\ au = 1000000 => g <= (1000000 \div 20) + 3000

\* the whole small purse was taken, the computed amount being larger
C4_Witness ==
  /\ pc = "done"
  /\ entry.p.au = 9
  /\ Logged("gold_stolen") = {9}
  /\ Logged("randint1(25)") = {25}
  /\ p.au = 0

(* ----------------------------------------------------------------------- *)
(* Experience drain on a range of experience and drain percentages         *)
(* ----------------------------------------------------------------------- *)
ExperienceHandlers == { "EXP_10", "EXP_20", "EXP_40", "EXP_80" }

InitExp ==
  Start({ [ DefaultCtx EXCEPT !.handler = h, !.damage = d, !.obvious = o ] :
          h \in ExperienceHandlers, d \in {0, 30}, o \in BOOLEAN },
        { [ DefaultPlayer EXCEPT !.exp = e, !.hold_life = hl, !.chp = c ] :
          e \in {0, 50, 1000, 12345}, hl \in BOOLEAN, c \in {10, 100} },
        { DefaultMon },
        { [ DefaultZ EXCEPT !.life_drain_percent = pct ] : pct \in {10, 25} })

NextExp == EXP_10 \/ EXP_20 \/ EXP_40 \/ EXP_80

SpecExp == InitExp /\ [][NextExp]_vars

\* the chance of keeping hold of the life force, by severity
ResistChance(h) ==
  IF h = "EXP_10" THEN 95 ELSE IF h = "EXP_20" THEN 90
  ELSE IF h = "EXP_40" THEN 75 ELSE 50

\* C5: a surviving defender is drained of base + floor(exp/100) * percent
\* without life-force protection, of a tenth of that (rounded down) with
\* protection and a failed resist check (roll >= chance), and of nothing with
\* protection and a passed check; the effect is obvious in every case.
C5_ExperienceDrain ==
  (pc = "done" /\ ctx.handler \in ExperienceHandlers) =>
    /\ ctx.obvious
    /\ ~p.is_dead =>
         \E base \in Logged("drain_amount") :
           LET drain == base + ((entry.p.exp \div 100)
                                * z_info.life_drain_percent)
               lost  == Logged("player_exp_lose")
               rolls == Logged("randint0(100)")
           IN  /\ ~entry.p.hold_life =>
                    /\ lost = { drain } /\ rolls = {}
                    /\ entry.p.exp >= drain => p.exp = entry.p.exp - drain
               /\ entry.p.hold_life =>
                    \E roll \in rolls :
                      /\ rolls = { roll }
                      /\ roll >= ResistChance(ctx.handler) =>
                           /\ lost = { drain \div 10 }
                           /\ entry.p.exp >= drain \div 10 =>
                                p.exp = entry.p.exp - (drain \div 10)
                      /\ roll < ResistChance(ctx.handler) =>
                           lost = {} /\ p.exp = entry.p.exp
               /\ (entry.p.exp = 1000 /\ z_info.life_drain_percent = 10
                   /\ base = 60) =>
                    lost \subseteq { 160, 16 }

\* experience 1000, percent 10, base 60, protected, check failed: 16 is lost
C5_Witness ==
  /\ pc = "done"
  /\ ctx.handler = "EXP_10"
  /\ entry.p.exp = 1000 /\ z_info.life_drain_percent = 10
  /\ Logged("drain_amount") = {60}
  /\ entry.p.hold_life /\ ~p.is_dead
  /\ Logged("randint0(100)") = {97}
  /\ Logged("player_exp_lose") = {16}
  /\ p.exp = 984

(* ----------------------------------------------------------------------- *)
(* The timed-status family on a range of save skills and timers            *)
(* ----------------------------------------------------------------------- *)
TimedHandlers == { "BLIND", "CONFUSE", "TERRIFY", "PARALYZE" }

InitTimed ==
  Start({ [ DefaultCtx EXCEPT !.handler = h, !.damage = d, !.rlev = r,
                              !.obvious = o ] :
          h \in TimedHandlers, d \in {0, 30}, r \in 1..MaxRlev,
          o \in BOOLEAN },
        { [ DefaultPlayer EXCEPT !.chp = 10, !.skill_save = sk,
                                 !.timed = [ t \in TMD |-> v ] ] :
          sk \in {0, 30, 100}, v \in {0, 5, TimedMax} },
        { DefaultMon }, { DefaultZ })

NextTimed == BLIND \/ CONFUSE \/ TERRIFY \/ PARALYZE

SpecTimed == InitTimed /\ [][NextTimed]_vars

\* the timer each handler raises
TimerOf(h) ==
  IF h = "BLIND" THEN "BLIND" ELSE IF h = "CONFUSE" THEN "CONFUSED"
  ELSE IF h = "TERRIFY" THEN "AFRAID" ELSE "PARALYZED"

\* C6: for a surviving defender, a saving throw is made by TERRIFY and
\* PARALYZE only; when it is made and succeeds (roll < save skill) no timer
\* changes and obvious is set; otherwise the timer increase is attempted and
\* obvious is set only if the timer changed.
C6_SaveBlocksTimer ==
  (pc = "done" /\ ctx.handler \in TimedHandlers) =>
    LET rolls == Logged("randint0(100)")
        saved == \E roll \in rolls : roll < entry.p.skill_save
        type  == TimerOf(ctx.handler)
    IN  /\ p.is_dead => rolls = {} /\ p.timed = entry.p.timed
                        /\ ctx.obvious = entry.ctx.obvious
        /\ ~p.is_dead =>
             /\ Cardinality(rolls) <= 1
             /\ (rolls # {}) <=> (ctx.handler \in { "TERRIFY", "PARALYZE" })
             /\ saved => /\ p.timed = entry.p.timed
                         /\ ctx.obvious
                         /\ "player_inc_timed" \notin Names(World)
             /\ ~saved =>
                  /\ "player_inc_timed" \in Names(World)
                  /\ ctx.obvious =
                       (entry.ctx.obvious \/ p.timed[type] # entry.p.timed[type])
                  /\ \A t \in TMD : t # type => p.timed[t] = entry.p.timed[t]

\* a successful save left the fear timer alone and was obvious
C6_Witness ==
  /\ pc = "done"
  /\ ctx.handler = "TERRIFY"
  /\ ~p.is_dead
  /\ ~entry.ctx.obvious /\ ctx.obvious
  /\ \E roll \in Logged("randint0(100)") : roll < entry.p.skill_save
  /\ entry.p.timed["AFRAID"] = 5
  /\ p.timed = entry.p.timed

(* ----------------------------------------------------------------------- *)
(* SHATTER on a range of damage, armour and hit points                     *)
(* ----------------------------------------------------------------------- *)
InitShatter ==
  Start({ [ DefaultCtx EXCEPT !.handler = "SHATTER", !.damage = d, !.ac = a,
                              !.do_break = k ] :
          d \in {0, 20, 23, 24, 25, 40, 60, 100},
          a \in {0, 10, 100, 240, 400}, k \in BOOLEAN },
        { [ DefaultPlayer EXCEPT !.chp = c ] : c \in {10, 30, 200} },
        { DefaultMon }, { DefaultZ })

NextShatter == SHATTER

SpecShatter == InitShatter /\ [][NextShatter]_vars

Quaked == "EF_EARTHQUAKE" \in Names(World)

\* do_break is raised by the handler exactly when the defender was moved
BreakIffMoved == ctx.do_break = (entry.ctx.do_break \/ p.pos # entry.p.pos)

\* C7 as stated: the earthquake happens exactly when the damage after armour
\* exceeds 23, whatever the defender's hit points, and do_break is set
\* exactly when the defender's position changed.
C7_QuakeIffOver23 ==
  (pc = "done" /\ ctx.handler = "SHATTER") =>
    /\ Quaked <=> (ctx.damage > 23)
    /\ BreakIffMoved

\* C7 amended: the earthquake happens exactly when the damage after armour
\* exceeds 23 and the defender survives that damage; do_break is set exactly
\* when the defender's position changed in the earthquake.
C7_QuakeIffOver23AndAlive ==
  (pc = "done" /\ ctx.handler = "SHATTER") =>
    /\ ctx.damage = adjust_dam_armor(entry.ctx.damage, entry.ctx.ac)
    /\ Quaked <=> (ctx.damage > 23 /\ ~p.is_dead)
    /\ ~Quaked => p.pos = entry.p.pos
    /\ BreakIffMoved

\* armour brought the damage to 30, the quake pushed the defender away
C7_Witness ==
  /\ pc = "done"
  /\ ctx.handler = "SHATTER"
  /\ entry.ctx.damage = 40 /\ ctx.damage = 30
  /\ ~p.is_dead
  /\ Quaked
  /\ p.pos # entry.p.pos
  /\ ~entry.ctx.do_break /\ ctx.do_break

(* ----------------------------------------------------------------------- *)
(* The registry lookup on registered and unregistered names                *)
(* ----------------------------------------------------------------------- *)
Registered == { effect_handlers[i].name : i \in 1..(Len(effect_handlers) - 1) }

\* a name with the letters at positions i, i % k = r, in lower case
Recase(n, k, r) ==
  [ i \in 1..Len(n) |-> IF i % k = r THEN tolower(n[i]) ELSE n[i] ]

LookupNames ==
  Registered
  \cup { Recase(n, k, r) : n \in Registered, k \in 1..3, r \in 0..2 }
  \cup UNION { { SubSeq(n, 1, j) : j \in 0..(Len(n) - 1) } : n \in Registered }
  \cup { Append(n, "X") : n \in Registered }
  \cup { <<"I", "N", "S", "U", "L", "T">>,
         <<"M", "O", "A", "N">>,
         <<"e", "x", "p", "_", "1", "0", "0">> }

InitLookup ==
  /\ pc = "lookup"
  /\ lk \in { [ name |-> n, current |-> 1, result |-> "NULL",
                returned |-> FALSE ] : n \in LookupNames }
  /\ ctx = DefaultCtx
  /\ p = DefaultPlayer
  /\ mon = DefaultMon
  /\ z_info = DefaultZ
  /\ effects = << >>
  /\ tries = 0
  /\ entry = [ ctx |-> ctx, p |-> p, mon |-> mon ]

NextLookup == Lookup

\* a call that has started runs on until it returns
SpecLookup == InitLookup /\ [][NextLookup]_vars /\ WF_vars(Lookup)

UpperOf(n) == [ i \in 1..Len(n) |-> toupper(n[i]) ]

\* the handler registered under a name, by the table alone
RegisteredUnder(n) ==
  LET hits == { i \in 1..(Len(effect_handlers) - 1) :
                  effect_handlers[i].name = UpperOf(n) }
  IN  IF hits = {} THEN "NULL"
      ELSE effect_handlers[CHOOSE i \in hits : TRUE].function

LookupCorrect ==
  /\ lk.current \in 1..Len(effect_handlers)
  /\ lk.returned =>
       /\ lk.result = RegisteredUnder(lk.name)
       /\ lk.result # "NULL" => lk.result \in Handlers
       /\ lk.result = "NULL" => lk.current = Len(effect_handlers)

\* C8: the lookup returns the handler registered under the name whatever the
\* case of its letters, null for every other name, and its scan never passes
\* the sentinel and always returns.
C8_LookupByName == [] LookupCorrect /\ <> lk.returned

\* a mixed-case name resolved to its handler
C8_Witness ==
  /\ lk.returned
  /\ lk.name = <<"e", "A", "t", "_", "g", "O", "l", "D">>
  /\ lk.result = "EAT_GOLD"

(* ----------------------------------------------------------------------- *)
(* DRAIN_CHARGES on every pack of a few kinds of item                      *)
(* ----------------------------------------------------------------------- *)
ChargeItems ==
  { NULL,
    Obj("wand", FALSE, 1, 0, 0), Obj("wand", FALSE, 1, 1, 0),
    Obj("wand", FALSE, MaxStack, 5, 1),
    Obj("food", FALSE, 1, 0, 0) }

InitDrain ==
  Start({ [ DefaultCtx EXCEPT !.handler = "DRAIN_CHARGES", !.rlev = r ] :
          r \in 1..MaxRlev },
        { [ DefaultPlayer EXCEPT !.inven = inv ] :
          inv \in [ Slots -> ChargeItems ] },
        { [ DefaultMon EXCEPT !.hp = h[1], !.maxhp = h[2] ] :
          h \in { <<10, 10>>, <<8, 10>>, <<1, 100>> } },
        { DefaultZ })

NextDrain == DRAIN_CHARGES \/ DRAIN_CHARGES_loop

SpecDrain == InitDrain /\ [][NextDrain]_vars

\* C10: at most one pack item has its charges changed; it bears charges and
\* had some; it keeps max(old - (floor(rlev/(level+2)) + 1), 0) of them; the
\* attacker heals by rlev times that drain count, capped at its missing hit
\* points; when no charged item is found in the 10 picks the attacker's hit
\* points, the charges and obvious are as on entry.
C10_DrainOneItem ==
  LET drained == Selected("drain")
  IN  /\ Cardinality(drained) <= 1
      /\ mon.hp <= mon.maxhp
      /\ \A i \in drained :
           LET obj     == entry.p.inven[i]
               unpower == (ctx.rlev \div (obj.level + 2)) + 1
           IN  /\ tval_can_have_charges(obj)
               /\ obj.pval > 0
               /\ p.inven[i] = [ obj EXCEPT !.pval = MAX(obj.pval - unpower, 0) ]
               /\ p.inven[i].pval >= 0
               /\ \A j \in Slots : j # i => p.inven[j] = entry.p.inven[j]
               /\ mon.hp = entry.mon.hp
                           + MIN(ctx.rlev * unpower,
                                 entry.mon.maxhp - entry.mon.hp)
               /\ ctx.obvious
               /\ pc = "done"
      /\ drained = {} =>
           /\ mon = entry.mon
           /\ p.inven = entry.p.inven
           /\ ctx.obvious = entry.ctx.obvious
           /\ pc = "done" => tries = MaxTries

\* a wand with one charge was emptied by a drain of two, and the attacker
\* healed only up to its maximum
C10_Witness ==
  /\ pc = "done"
  /\ \E i \in Selected("drain") :
       /\ entry.p.inven[i].pval = 1
       /\ p.inven[i].pval = 0
  /\ Logged("unpower") = {2}
  /\ ctx.rlev = 3
  /\ entry.mon.hp = 8 /\ mon.hp = 10
  /\ tries > 0

(* ----------------------------------------------------------------------- *)
(* The loot of a gold theft                                                *)
(* ----------------------------------------------------------------------- *)
\* the objects the attacker was handed in this invocation
Loot == SubSeq(mon.held, Len(entry.mon.held) + 1, Len(mon.held))

RECURSIVE SumPval(_)
SumPval(objs) ==
  IF objs = << >> THEN 0 ELSE objs[1].pval + SumPval(Tail(objs))

\* C11: a gold theft of a positive amount g takes exactly g from the
\* defender and hands the attacker one or more gold objects, each of 1 to
\* MAX_PVAL gold and of stolen origin, that add up to g; the loop that makes
\* them has ended and blinked is set.
C11_GoldConserved ==
  \A g \in Logged("gold_stolen") :
    g > 0 =>
      /\ pc = "done"
      /\ entry.p.au - p.au = g
      /\ SubSeq(mon.held, 1, Len(entry.mon.held)) = entry.mon.held
      /\ Len(Loot) >= 1
      /\ \A i \in DOMAIN Loot :
           /\ Loot[i].kind = "gold"
           /\ Loot[i].pval >= 1 /\ Loot[i].pval <= MAX_PVAL
           /\ Loot[i].origin = "STOLEN"
      /\ SumPval(Loot) = g
      /\ ctx.blinked
      /\ "PR_GOLD" \in p.redraw

\* a theft larger than one object can hold was split over two objects
C11_Witness ==
  /\ pc = "done"
  /\ entry.p.au = 1000000
  /\ \E g \in Logged("gold_stolen") : g > MAX_PVAL /\ SumPval(Loot) = g
  /\ Len(Loot) = 2
  /\ Loot[1].pval = MAX_PVAL
  /\ ~entry.ctx.blinked /\ ctx.blinked

(* ----------------------------------------------------------------------- *)
(* The "Nothing was stolen." exit of a gold theft                          *)
(* ----------------------------------------------------------------------- *)
\* the invocation left through "if (gold <= 0)"
NothingStolen == Logged("Nothing was stolen.") # {}

\* C12 as stated: the "Nothing was stolen." exit is never taken; the amount
\* tested by it is positive whatever gold the defender holds and whatever is
\* drawn, so every failed save hands gold objects to the attacker and sets
\* blinked.
C12_ExitUnreachable ==
  \A g \in Logged("gold_stolen") :
    /\ g > 0
    /\ ~NothingStolen
    /\ Len(Loot) >= 1
    /\ ctx.blinked

\* C12: the amount is capped at the defender's gold after it was raised to
\* 2, so after a failed save the "Nothing was stolen." exit is taken exactly
\* when the defender holds no gold: then the amount is 0, the attacker is
\* handed nothing, and blinked and the gold redraw flag stay as they were;
\* a defender holding gold loses a positive amount, the attacker is handed
\* gold objects and blinked is set.
C12_ExitExactlyWhenBroke ==
  \A g \in Logged("gold_stolen") :
    /\ g >= 0
    /\ NothingStolen <=> (entry.p.au = 0)
    /\ (g = 0) <=> (entry.p.au = 0)
    /\ entry.p.au = 0 =>
         /\ pc = "done"
         /\ p.au = 0
         /\ mon.held = entry.mon.held
         /\ ctx.blinked = entry.ctx.blinked
         /\ p.redraw = entry.p.redraw
         /\ ctx.obvious
    /\ entry.p.au > 0 =>
         /\ Len(Loot) >= 1
         /\ SumPval(Loot) = g
         /\ ctx.blinked

\* a defender without gold failed the save: nothing was stolen, nothing was
\* handed over and the attacker stays
C12_Witness ==
  /\ pc = "done"
  /\ entry.p.au = 0
  /\ Logged("gold_stolen") = {0}
  /\ NothingStolen
  /\ Loot = << >>
  /\ ~entry.ctx.blinked /\ ~ctx.blinked

(* ----------------------------------------------------------------------- *)
(* The saving throw of an item theft                                       *)
(* ----------------------------------------------------------------------- *)
InitItemSave ==
  Start({ [ DefaultCtx EXCEPT !.handler = "EAT_ITEM", !.damage = d ] :
          d \in { 0, 30 } },
        { [ DefaultPlayer EXCEPT !.timed["PARALYZED"] = par, !.chp = hp,
                                 !.lev = lev ] :
          par \in { 0, 5 }, hp \in { 10, 100 }, lev \in { 1, 5 } },
        { DefaultMon }, { DefaultZ })

NextItemSave == EAT_ITEM \/ EAT_ITEM_loop

SpecItemSave == InitItemSave /\ [][NextItemSave]_vars

\* the saving throws of this invocation that succeeded
SavingRolls ==
  { roll \in Logged("randint0(100)") : roll < entry.p.adj_dex_safe + entry.p.lev }

\* the throw is made only by an unparalyzed defender, and a successful one
\* ends the handler with the pack and the attacker's objects as they were
\* and the effect marked obvious
SaveKeepsItems ==
  /\ Logged("randint0(100)") # {} => entry.p.timed["PARALYZED"] = 0
  /\ SavingRolls # {} =>
       /\ pc = "done"
       /\ p.inven = entry.p.inven
       /\ mon.held = entry.mon.held
       /\ ctx.obvious

\* the outcomes of the handler, called now, in which the save succeeded
SavedOutcomes ==
  { w \in melee_effect_handler_EAT_ITEM(World) :
      \E i \in DOMAIN w.effects :
        /\ w.effects[i][1] = "randint0(100)"
        /\ w.effects[i][2] < w.p.adj_dex_safe + w.p.lev }

\* C13 as stated: item theft makes its saving throw only when the defender
\* is not paralyzed; a successful throw leaves the pack and the attacker's
\* objects unchanged and sets obvious; and wherever the throw can succeed,
\* it can succeed with blinked set and it can succeed with blinked left
\* unset.
C13_SaveBlinksSometimes ==
  /\ SaveKeepsItems
  /\ (pc = "call" /\ SavedOutcomes # {}) =>
       /\ \E w \in SavedOutcomes : w.ctx.blinked
       /\ \E w \in SavedOutcomes : ~w.ctx.blinked

====
